---- MODULE Spec2Model ----
(***************************************************************************)
(* A model of the ETHS girls swimming calendar sync (sync_calendar.py):    *)
(* the scraper's navigation and extraction heuristics, the two renderers   *)
(* (generate_html_calendar, generate_ics_calendar) and main().             *)
(*                                                                         *)
(* Text is modelled as sequences of one-character strings, so that the     *)
(* regular expressions, strptime/strftime, html.escape and the substring   *)
(* tests of the source compute what they compute in Python.                *)
(***************************************************************************)
EXTENDS Integers, Sequences, FiniteSets, TLC

(***************************************************************************)
(* Characters and strings                                                  *)
(***************************************************************************)

Digits == {"0","1","2","3","4","5","6","7","8","9"}

UpperCase == {"A","B","C","D","E","F","G","H","I","J","K","L","M","N","O","P","Q","R","S","T","U","V","W","X","Y","Z"}

LowerCase == {"a","b","c","d","e","f","g","h","i","j","k","l","m","n","o","p","q","r","s","t","u","v","w","x","y","z"}

\* \w of the re module (ASCII part)
WordChars == Digits \cup UpperCase \cup LowerCase \cup {"_"}

\* \s of the re module (the whitespace the model's texts use)
Whitespace == {" ", "\n", "\t"}

LowerOf ==
    "A" :> "a" @@ "B" :> "b" @@ "C" :> "c" @@ "D" :> "d" @@ "E" :> "e" @@ "F" :> "f" @@ "G" :> "g" @@ "H" :> "h" @@ "I" :> "i" @@ "J" :> "j" @@ "K" :> "k" @@ "L" :> "l" @@ "M" :> "m"
    @@ "N" :> "n" @@ "O" :> "o" @@ "P" :> "p" @@ "Q" :> "q" @@ "R" :> "r" @@ "S" :> "s" @@ "T" :> "t" @@ "U" :> "u" @@ "V" :> "v" @@ "W" :> "w" @@ "X" :> "x" @@ "Y" :> "y" @@ "Z" :> "z"

DigitVal ==
    "0" :> 0 @@ "1" :> 1 @@ "2" :> 2 @@ "3" :> 3 @@ "4" :> 4 @@ "5" :> 5 @@ "6" :> 6 @@ "7" :> 7 @@ "8" :> 8 @@ "9" :> 9

DigitChar == <<"0","1","2","3","4","5","6","7","8","9">>

Min(S) == CHOOSE x \in S : \A y \in S : x <= y

Max(S) == CHOOSE x \in S : \A y \in S : x >= y

\* None of Python, and a present value
None == [some |-> FALSE]

Some(v) == [some |-> TRUE, v |-> v]

\* str.lower()
LowerChar(c) == IF c \in UpperCase THEN LowerOf[c] ELSE c

Lower(s) == [i \in 1..Len(s) |-> LowerChar(s[i])]

\* `sub in s` of Python
Contains(s, sub) ==
    \E i \in 1..(Len(s) - Len(sub) + 1) : SubSeq(s, i, i + Len(sub) - 1) = sub

\* s[pos:].startswith(sub), and the same ignoring case (re.I)
StartsAt(s, pos, sub) ==
    /\ pos + Len(sub) - 1 <= Len(s)
    /\ SubSeq(s, pos, pos + Len(sub) - 1) = sub

StartsAtNoCase(s, pos, sub) ==
    /\ pos + Len(sub) - 1 <= Len(s)
    /\ Lower(SubSeq(s, pos, pos + Len(sub) - 1)) = Lower(sub)

\* str.strip()
RECURSIVE LStrip(_)
LStrip(s) ==
    IF s # <<>> /\ Head(s) \in Whitespace THEN LStrip(Tail(s)) ELSE s

RECURSIVE RStrip(_)
RStrip(s) ==
    IF s # <<>> /\ s[Len(s)] \in Whitespace THEN RStrip(SubSeq(s, 1, Len(s) - 1)) ELSE s

Strip(s) == RStrip(LStrip(s))

IsDigits(s) == \A i \in 1..Len(s) : s[i] \in Digits

\* int() of a string of digits
RECURSIVE NumVal(_)
NumVal(s) ==
    IF s = <<>> THEN 0
    ELSE 10 * NumVal(SubSeq(s, 1, Len(s) - 1)) + DigitVal[s[Len(s)]]

\* str(n) of a natural number, and n formatted to at least `width` digits (%02d, %04d)
RECURSIVE NumStr(_)
NumStr(n) ==
    IF n < 10 THEN <<DigitChar[n + 1]>>
    ELSE NumStr(n \div 10) \o <<DigitChar[(n % 10) + 1]>>

RECURSIVE Pad(_, _)
Pad(s, width) == IF Len(s) >= width THEN s ELSE Pad(<<"0">> \o s, width)

\* html.escape(s, quote=True)
EscapeChar(c) ==
    CASE c = "&" -> <<"&","a","m","p",";">> (* "&amp;" *)
      [] c = "<" -> <<"&","l","t",";">> (* "&lt;" *)
      [] c = ">" -> <<"&","g","t",";">> (* "&gt;" *)
      [] c = "\"" -> <<"&","q","u","o","t",";">> (* "&quot;" *)
      [] c = "'" -> <<"&","#","x","2","7",";">> (* "&#x27;" *)
      [] OTHER -> <<c>>

RECURSIVE HtmlEscape(_)
HtmlEscape(s) ==
    IF s = <<>> THEN <<>> ELSE EscapeChar(Head(s)) \o HtmlEscape(Tail(s))

(***************************************************************************)
(* Word runs: the maximal runs of \w characters of a text.  In the date    *)
(* patterns every group is delimited by \b, \s or a literal non-word       *)
(* character, so each group is one whole run and a match is a sequence of  *)
(* consecutive runs with the required separators between them.             *)
(***************************************************************************)
IsWord(t, i) == i \in 1..Len(t) /\ t[i] \in WordChars

RunEnd(t, i) ==
    CHOOSE j \in i..Len(t) : (\A k \in i..j : IsWord(t, k)) /\ ~IsWord(t, j + 1)

RECURSIVE RunsFrom(_, _)
RunsFrom(t, i) ==
    IF i > Len(t) THEN <<>>
    ELSE IF IsWord(t, i)
         THEN <<[s |-> i, e |-> RunEnd(t, i)]>> \o RunsFrom(t, RunEnd(t, i) + 1)
         ELSE RunsFrom(t, i + 1)

Runs(t) == RunsFrom(t, 1)

RunText(t, r) == SubSeq(t, r.s, r.e)

\* the separator between run k and run k+1
Gap(t, r, k) == SubSeq(t, r[k].e + 1, r[k + 1].s - 1)

\* \s+
IsSpaces(g) == g # <<>> /\ \A i \in 1..Len(g) : g[i] \in Whitespace

\* ,?\s+
IsCommaSpaces(g) == IsSpaces(g) \/ (g # <<>> /\ Head(g) = "," /\ IsSpaces(Tail(g)))

\* (\d{1,2})\b and (\d{4})\b as a whole run
IsDay(w) == Len(w) \in 1..2 /\ IsDigits(w)

IsYear4(w) == Len(w) = 4 /\ IsDigits(w)

(***************************************************************************)
(* Calendar arithmetic and the datetime module                             *)
(***************************************************************************)
MonthNames ==
    << <<"J","a","n","u","a","r","y">> (* "January" *), <<"F","e","b","r","u","a","r","y">> (* "February" *), <<"M","a","r","c","h">> (* "March" *),
       <<"A","p","r","i","l">> (* "April" *), <<"M","a","y">> (* "May" *), <<"J","u","n","e">> (* "June" *),
       <<"J","u","l","y">> (* "July" *), <<"A","u","g","u","s","t">> (* "August" *), <<"S","e","p","t","e","m","b","e","r">> (* "September" *),
       <<"O","c","t","o","b","e","r">> (* "October" *), <<"N","o","v","e","m","b","e","r">> (* "November" *), <<"D","e","c","e","m","b","e","r">> (* "December" *) >>

\* Monday first, as datetime.weekday() counts
WeekdayNames ==
    << <<"M","o","n","d","a","y">> (* "Monday" *), <<"T","u","e","s","d","a","y">> (* "Tuesday" *), <<"W","e","d","n","e","s","d","a","y">> (* "Wednesday" *),
       <<"T","h","u","r","s","d","a","y">> (* "Thursday" *), <<"F","r","i","d","a","y">> (* "Friday" *), <<"S","a","t","u","r","d","a","y">> (* "Saturday" *),
       <<"S","u","n","d","a","y">> (* "Sunday" *) >>

IsLeap(y) == (y % 4 = 0 /\ y % 100 # 0) \/ y % 400 = 0

DaysInMonth(y, m) ==
    IF m = 2 THEN (IF IsLeap(y) THEN 29 ELSE 28)
    ELSE IF m \in {4, 6, 9, 11} THEN 30 ELSE 31

\* date(y, m, d).weekday() + 1: 1 = Monday .. 7 = Sunday
DayOfWeek(y, m, d) ==
    LET t == <<0, 3, 2, 5, 0, 3, 5, 1, 4, 6, 2, 4>>
        yy == IF m < 3 THEN y - 1 ELSE y
        sun0 == (yy + (yy \div 4) - (yy \div 100) + (yy \div 400) + t[m] + d) % 7
    IN ((sun0 + 6) % 7) + 1

\* The formats the program hands to strptime, as lists of directives,
\* literal characters and "ws" (a run of blanks of the format is \s+).
FormatCard == <<"%A", ",", "ws", "%B", "ws", "%d", ",", "ws", "%Y">>

FormatLong ==
    <<"%A", ",", "ws", "%B", "ws", "%d", ",", "ws", "%Y", "ws", "%I", ":", "%M", "ws", "%p">>

FormatNoWeekday ==
    <<"%B", "ws", "%d", ",", "ws", "%Y", "ws", "%I", ":", "%M", "ws", "%p">>

NoVals == [k \in {} |-> 0]

\* A number of exactly n digits at pos whose value lies in lo..hi
NumAt(s, pos, n, lo, hi, key) ==
    IF /\ pos + n - 1 <= Len(s)
       /\ IsDigits(SubSeq(s, pos, pos + n - 1))
       /\ NumVal(SubSeq(s, pos, pos + n - 1)) \in lo..hi
    THEN {[next |-> pos + n, vals |-> key :> NumVal(SubSeq(s, pos, pos + n - 1))]}
    ELSE {}

NameAt(s, pos, names, key) ==
    {[next |-> pos + Len(names[i]), vals |-> key :> i] :
        i \in {j \in 1..Len(names) : StartsAtNoCase(s, pos, names[j])}}

\* What one item of a format can consume at pos (the regular expression
\* _strptime builds for it, matched ignoring case): the positions after it
\* and the value read.
Consume(s, pos, item) ==
    CASE item = "ws" ->
           {[next |-> e + 1, vals |-> NoVals] :
               e \in {j \in pos..Len(s) : \A k \in pos..j : s[k] \in Whitespace}}
      [] item = "%A" -> NameAt(s, pos, WeekdayNames, "A")
      [] item = "%B" -> NameAt(s, pos, MonthNames, "m")
      [] item = "%d" ->     \* 3[0-1]|[1-2]\d|0[1-9]|[1-9]| [1-9]
           NumAt(s, pos, 2, 1, 31, "d") \cup NumAt(s, pos, 1, 1, 9, "d")
           \cup (IF pos <= Len(s) /\ s[pos] = " "
                 THEN NumAt(s, pos + 1, 1, 1, 9, "d") ELSE {})
      [] item = "%Y" -> NumAt(s, pos, 4, 0, 9999, "Y")      \* \d\d\d\d
      [] item = "%I" ->     \* 1[0-2]|0[1-9]|[1-9]
           NumAt(s, pos, 2, 1, 12, "I") \cup NumAt(s, pos, 1, 1, 9, "I")
      [] item = "%M" ->     \* [0-5]\d|\d
           NumAt(s, pos, 2, 0, 59, "M") \cup NumAt(s, pos, 1, 0, 9, "M")
      [] item = "%p" -> NameAt(s, pos, << <<"a","m">> (* "am" *), <<"p","m">> (* "pm" *) >>, "p")
      [] OTHER ->
           IF pos <= Len(s) /\ s[pos] = item
           THEN {[next |-> pos + 1, vals |-> NoVals]} ELSE {}

\* The values of every way the whole of s matches fmt from item k on
\* (re.match, then "unconverted data remains" unless the string is used up)
RECURSIVE Parses(_, _, _, _)
Parses(s, pos, fmt, k) ==
    IF k > Len(fmt) THEN (IF pos = Len(s) + 1 THEN {NoVals} ELSE {})
    ELSE UNION { {c.vals @@ rest : rest \in Parses(s, c.next, fmt, k + 1)} :
                 c \in Consume(s, pos, fmt[k]) }

ParseFailed == [ok |-> FALSE]

\* datetime.strptime(s, fmt): ParseFailed stands for ValueError.  The weekday
\* read by %A is not used; hour and minute default to 0.
Strptime(s, fmt) ==
    LET ps == Parses(s, 1, fmt, 1)
    IN IF ps = {} THEN ParseFailed
       ELSE LET v == CHOOSE x \in ps : TRUE
                hour == IF "I" \notin DOMAIN v THEN 0
                        ELSE IF v["p"] = 1 THEN (v["I"] % 12)
                        ELSE (v["I"] % 12) + 12
            IN IF v["Y"] < 1 \/ v["d"] > DaysInMonth(v["Y"], v["m"])
               THEN ParseFailed
               ELSE [ok |-> TRUE, year |-> v["Y"], month |-> v["m"], day |-> v["d"],
                     hour |-> hour,
                     minute |-> IF "M" \in DOMAIN v THEN v["M"] ELSE 0,
                     second |-> 0]

\* dt.strftime('%A, %B %d, %Y')
Strftime(dt) ==
    WeekdayNames[DayOfWeek(dt.year, dt.month, dt.day)] \o <<","," ">> (* ", " *)
        \o MonthNames[dt.month] \o <<" ">> (* " " *) \o Pad(NumStr(dt.day), 2)
        \o <<","," ">> (* ", " *) \o Pad(NumStr(dt.year), 4)

\* dt + timedelta(hours=h), for h < 24
PlusHours(dt, h) ==
    IF dt.hour + h < 24 THEN [dt EXCEPT !.hour = dt.hour + h]
    ELSE IF dt.day < DaysInMonth(dt.year, dt.month)
         THEN [dt EXCEPT !.hour = dt.hour + h - 24, !.day = dt.day + 1]
    ELSE IF dt.month < 12
         THEN [dt EXCEPT !.hour = dt.hour + h - 24, !.day = 1, !.month = dt.month + 1]
    ELSE [dt EXCEPT !.hour = dt.hour + h - 24, !.day = 1, !.month = 1,
                    !.year = dt.year + 1]

(***************************************************************************)
(* The extraction heuristics of ETHSCalendarScraper                        *)
(***************************************************************************)
\* the season year _extract_date assumes
SeasonYear == 2025

\* month_map.get(month_abbr, month_abbr): the keys are the three-letter
\* abbreviations Jan .. Dec, each mapped to its full name
MonthFull(abbr) ==
    IF \E m \in 1..12 : SubSeq(MonthNames[m], 1, 3) = abbr
    THEN MonthNames[CHOOSE m \in 1..12 : SubSeq(MonthNames[m], 1, 3) = abbr]
    ELSE abbr

\* short_date_pattern \b(\w+),?\s+(\w+)\s+(\d{1,2})\b at run k
ShortDateAt(t, r, k) ==
    /\ k + 2 <= Len(r)
    /\ IsCommaSpaces(Gap(t, r, k))
    /\ IsSpaces(Gap(t, r, k + 1))
    /\ IsDay(RunText(t, r[k + 2]))

\* \b(\w+day),?\s+(\w+)\s+(\d{1,2}),?\s+(\d{4})\b at run k
LongDateAt(t, r, k) ==
    /\ k + 3 <= Len(r)
    /\ Len(RunText(t, r[k])) >= 4
    /\ SubSeq(t, r[k].e - 2, r[k].e) = <<"d","a","y">> (* "day" *)
    /\ IsCommaSpaces(Gap(t, r, k))
    /\ IsSpaces(Gap(t, r, k + 1))
    /\ IsDay(RunText(t, r[k + 2]))
    /\ IsCommaSpaces(Gap(t, r, k + 2))
    /\ IsYear4(RunText(t, r[k + 3]))

\* \b(\w+)\s+(\d{1,2}),?\s+(\d{4})\b at run k
MonthDateAt(t, r, k) ==
    /\ k + 2 <= Len(r)
    /\ IsSpaces(Gap(t, r, k))
    /\ IsDay(RunText(t, r[k + 1]))
    /\ IsCommaSpaces(Gap(t, r, k + 1))
    /\ IsYear4(RunText(t, r[k + 2]))

\* \b(\d{1,2})/(\d{1,2})/(\d{4})\b at run k
SlashDateAt(t, r, k) ==
    /\ k + 2 <= Len(r)
    /\ IsDay(RunText(t, r[k]))
    /\ Gap(t, r, k) = <<"/">>
    /\ IsDay(RunText(t, r[k + 1]))
    /\ Gap(t, r, k + 1) = <<"/">>
    /\ IsYear4(RunText(t, r[k + 2]))

\* _extract_date
ExtractDate(text) ==
    LET r == Runs(text)
        short == {k \in 1..Len(r) : ShortDateAt(text, r, k)}
        long == {k \in 1..Len(r) : LongDateAt(text, r, k)}
        month == {k \in 1..Len(r) : MonthDateAt(text, r, k)}
        slash == {k \in 1..Len(r) : SlashDateAt(text, r, k)}
    IN IF short # {}
       THEN LET k == Min(short)
            IN Some(RunText(text, r[k]) \o <<","," ">> (* ", " *)
                    \o MonthFull(RunText(text, r[k + 1])) \o <<" ">> (* " " *)
                    \o RunText(text, r[k + 2]) \o <<","," ">> (* ", " *) \o NumStr(SeasonYear))
       ELSE IF long # {}
       THEN Some(SubSeq(text, r[Min(long)].s, r[Min(long) + 3].e))
       ELSE IF month # {}
       THEN Some(SubSeq(text, r[Min(month)].s, r[Min(month) + 2].e))
       ELSE IF slash # {}
       THEN Some(SubSeq(text, r[Min(slash)].s, r[Min(slash) + 2].e))
       ELSE None

\* the last position of the run of blanks that starts at r (r - 1 when none)
BlanksEnd(t, r) ==
    Max({j \in (r - 1)..Len(t) : \A k \in r..j : t[k] \in Whitespace})

\* Where a match of time_pattern \b(\d{1,2}):(\d{2})\s*(AM|PM)?\b that starts
\* at p ends (re.I), 0 when there is none.  After the minutes the blanks are
\* taken greedily, then AM or PM if a word boundary follows it; failing
\* that the match ends at the last place a word boundary is found.
TimeMatchEnd(t, p) ==
    IF ~(p \in 1..Len(t) /\ t[p] \in Digits /\ ~IsWord(t, p - 1)) THEN 0
    ELSE LET c == IF p + 1 <= Len(t) /\ t[p + 1] \in Digits THEN p + 2 ELSE p + 1
         IN IF ~(c + 2 <= Len(t) /\ t[c] = ":" /\ t[c + 1] \in Digits /\ t[c + 2] \in Digits)
            THEN 0
            ELSE LET r == c + 3
                     w == BlanksEnd(t, r)
                 IN IF /\ StartsAtNoCase(t, w + 1, <<"a","m">> (* "am" *)) \/ StartsAtNoCase(t, w + 1, <<"p","m">> (* "pm" *))
                       /\ ~IsWord(t, w + 3)
                    THEN w + 2
                    ELSE IF w >= r /\ IsWord(t, w + 1) THEN w
                    ELSE IF w >= r THEN r - 1
                    ELSE IF ~IsWord(t, r) THEN r - 1
                    ELSE 0

\* _extract_time
ExtractTime(text) ==
    LET starts == {p \in 1..Len(text) : TimeMatchEnd(text, p) # 0}
    IN IF starts = {} THEN None
       ELSE Some(SubSeq(text, Min(starts), TimeMatchEnd(text, Min(starts))))

\* Where the group ([^,\n]+) starts after a prefix that ends at k and at
\* least minBlanks blanks, taken greedily (0 when the group cannot match)
CaptureStart(t, k, minBlanks) ==
    LET cs == {c \in (k + 1 + minBlanks)..(BlanksEnd(t, k + 1) + 1) :
                  c <= Len(t) /\ t[c] \notin {",", "\n"}}
    IN IF cs = {} THEN 0 ELSE Max(cs)

CaptureEnd(t, c) ==
    Max({j \in c..Len(t) : \A i \in c..j : t[i] \notin {",", "\n"}})

\* re.search(prefix + blanks + ([^,\n]+), text, re.I): group 1, stripped
SearchLocation(text, prefix, minBlanks) ==
    LET starts == {i \in 1..Len(text) :
                      /\ StartsAtNoCase(text, i, prefix)
                      /\ CaptureStart(text, i + Len(prefix) - 1, minBlanks) # 0}
    IN IF starts = {} THEN None
       ELSE LET c == CaptureStart(text, Min(starts) + Len(prefix) - 1, minBlanks)
            IN Some(Strip(SubSeq(text, c, CaptureEnd(text, c))))

\* _extract_location: at\s+, @\s+, Location:\s* in this order
ExtractLocation(text) ==
    IF SearchLocation(text, <<"a","t">> (* "at" *), 1).some
    THEN SearchLocation(text, <<"a","t">> (* "at" *), 1)
    ELSE IF SearchLocation(text, <<"@">> (* "@" *), 1).some
    THEN SearchLocation(text, <<"@">> (* "@" *), 1)
    ELSE SearchLocation(text, <<"L","o","c","a","t","i","o","n",":">> (* "Location:" *), 0)

\* _extract_event_type testing 'relay' after 'conference' (a mutant)
ExtractEventType_ConferenceFirst(text) ==
    LET text_lower == Lower(text)
    IN IF Contains(text_lower, <<"i","n","v","i","t","a","t","i","o","n","a","l">> (* "invitational" *)) \/ Contains(text_lower, <<"i","n","v","i","t","e">> (* "invite" *))
       THEN <<"I","n","v","i","t","a","t","i","o","n","a","l">> (* "Invitational" *)
       ELSE IF Contains(text_lower, <<"c","o","n","f","e","r","e","n","c","e">> (* "conference" *)) THEN <<"C","o","n","f","e","r","e","n","c","e">> (* "Conference" *)
       ELSE IF Contains(text_lower, <<"r","e","l","a","y">> (* "relay" *)) THEN <<"R","e","l","a","y"," ","M","e","e","t">> (* "Relay Meet" *)
       ELSE IF Contains(text_lower, <<"s","e","c","t","i","o","n","a","l">> (* "sectional" *)) THEN <<"C","h","a","m","p","i","o","n","s","h","i","p">> (* "Championship" *)
       ELSE IF Contains(text_lower, <<"s","t","a","t","e">> (* "state" *)) THEN <<"C","h","a","m","p","i","o","n","s","h","i","p">> (* "Championship" *)
       ELSE IF Contains(text_lower, <<"m","e","e","t","i","n","g">> (* "meeting" *)) THEN <<"M","e","e","t","i","n","g">> (* "Meeting" *)
       ELSE <<"D","u","a","l"," ","M","e","e","t">> (* "Dual Meet" *)

\* _extract_event_type
ExtractEventType(text) ==
    LET text_lower == Lower(text)
    IN IF Contains(text_lower, <<"i","n","v","i","t","a","t","i","o","n","a","l">> (* "invitational" *)) \/ Contains(text_lower, <<"i","n","v","i","t","e">> (* "invite" *))
       THEN <<"I","n","v","i","t","a","t","i","o","n","a","l">> (* "Invitational" *)
       ELSE IF Contains(text_lower, <<"r","e","l","a","y">> (* "relay" *)) THEN <<"R","e","l","a","y"," ","M","e","e","t">> (* "Relay Meet" *)
       ELSE IF Contains(text_lower, <<"c","o","n","f","e","r","e","n","c","e">> (* "conference" *)) THEN <<"C","o","n","f","e","r","e","n","c","e">> (* "Conference" *)
       ELSE IF Contains(text_lower, <<"s","e","c","t","i","o","n","a","l">> (* "sectional" *)) THEN <<"C","h","a","m","p","i","o","n","s","h","i","p">> (* "Championship" *)
       ELSE IF Contains(text_lower, <<"s","t","a","t","e">> (* "state" *)) THEN <<"C","h","a","m","p","i","o","n","s","h","i","p">> (* "Championship" *)
       ELSE IF Contains(text_lower, <<"m","e","e","t","i","n","g">> (* "meeting" *)) THEN <<"M","e","e","t","i","n","g">> (* "Meeting" *)
       ELSE <<"D","u","a","l"," ","M","e","e","t">> (* "Dual Meet" *)

(***************************************************************************)
(* Scraping: rows of the listing page to events.  A dict is a function     *)
(* whose domain is the set of its keys.                                    *)
(***************************************************************************)
\* d.get(key, default)
Get(d, key, default) == IF key \in DOMAIN d THEN d[key] ELSE default

\* the number of cells a listing row needs
MinCells == 4

\* _parse_event_row.  A row is its <td> cells as get_text(strip=True) gives
\* them and the method of the form in its fourth cell ("none": no form);
\* row_html stands for str(row).
ParseEventRow(row) ==
    IF row.ncells < MinCells THEN None
    ELSE IF row.date = <<>> \/ row.name = <<>> \/ Len(row.name) < 2 THEN None
    ELSE Some([date_text |-> IF ExtractDate(row.date).some
                             THEN ExtractDate(row.date).v ELSE row.date,
               name |-> row.name,
               location |-> row.location,
               info_element |-> row.form,
               row_html |-> row])

\* _parse_competitions_page giving up at the first row that does not parse
\* (a mutant)
RECURSIVE ParseRows_StopsAtBadRow(_)
ParseRows_StopsAtBadRow(rows) ==
    IF rows = <<>> THEN <<>>
    ELSE IF ~ParseEventRow(Head(rows)).some THEN <<>>
    ELSE <<ParseEventRow(Head(rows)).v>> \o ParseRows_StopsAtBadRow(Tail(rows))

\* _parse_competitions_page: the rows of the table that parse, in order
RECURSIVE ParseRows(_)
ParseRows(rows) ==
    IF rows = <<>> THEN <<>>
    ELSE (IF ParseEventRow(Head(rows)).some
          THEN <<ParseEventRow(Head(rows)).v>> ELSE <<>>) \o ParseRows(Tail(rows))

ParseCompetitionsPage(page) == IF ~page.table THEN <<>> ELSE ParseRows(page.rows)

\* _find_competitions_link returning a link whatever the page holds (a
\* mutant)
FindCompetitionsLink_Always(page) == Some("href of the first link")

\* _find_competitions_link: a link whose text matches Competitions?, else
\* one whose href matches compet; the page is modelled by which it holds.
FindCompetitionsLink(page) ==
    IF page = "text_link" THEN Some("href of the link named Competitions")
    ELSE IF page = "href_link" THEN Some("href that contains compet")
    ELSE None

\* _create_basic_event without its default time (a mutant)
CreateBasicEvent_NoDefaultTime(event_data) ==
    [name |-> Get(event_data, "name", <<"U","n","k","n","o","w","n"," ","E","v","e","n","t">> (* "Unknown Event" *)),
     date |-> Get(event_data, "date_text", <<>>),
     time |-> <<>>,
     location |-> Get(event_data, "location", <<"T","B","D">> (* "TBD" *)),
     type |-> ExtractEventType(Get(event_data, "name", <<"U","n","k","n","o","w","n"," ","E","v","e","n","t">> (* "Unknown Event" *))),
     home |-> (Get(event_data, "location", <<"T","B","D">> (* "TBD" *)) = <<"E","T","H","S">> (* "ETHS" *)),
     raw_data |-> event_data]

\* _create_basic_event
CreateBasicEvent(event_data) ==
    LET location == Get(event_data, "location", <<"T","B","D">> (* "TBD" *))
        event_name == Get(event_data, "name", <<"U","n","k","n","o","w","n"," ","E","v","e","n","t">> (* "Unknown Event" *))
    IN [name |-> event_name,
        date |-> Get(event_data, "date_text", <<>>),
        time |-> <<"5",":","0","0"," ","P","M">> (* "5:00 PM" *),
        location |-> location,
        type |-> ExtractEventType(event_name),
        home |-> (location = <<"E","T","H","S">> (* "ETHS" *)),
        raw_data |-> event_data]

\* _parse_event_details, on soup.get_text() of the detail page
ParseEventDetails(text, basic_event) ==
    LET event == CreateBasicEvent(basic_event)
        time_text == ExtractTime(text)
        location == ExtractLocation(text)
        withTime == IF time_text.some /\ time_text.v # <<>>
                    THEN [event EXCEPT !.time = time_text.v] ELSE event
        withLocation == IF location.some /\ location.v # <<>>
                        THEN [withTime EXCEPT !.location = location.v] ELSE withTime
    IN [withLocation EXCEPT !.type = ExtractEventType(text)]

\* Whether _get_event_details sends a request: the info element is the
\* <form> of the fourth cell or None (never an <a>)
SendsRequest(event_data) == Get(event_data, "info_element", "none") # "none"

\* What a request comes to: HttpError when the request raises or
\* raise_for_status does, else the body of the response
HttpError == [ok |-> FALSE]

HttpOk(body) == [ok |-> TRUE, body |-> body]

\* _get_event_details with _handle_form_post; the body of the response is
\* soup.get_text() of the detail page
GetEventDetails(event_data, response) ==
    IF ~SendsRequest(event_data) THEN CreateBasicEvent(event_data)
    ELSE IF ~response.ok THEN CreateBasicEvent(event_data)
    ELSE ParseEventDetails(response.body, event_data)

(***************************************************************************)
(* Rendering                                                               *)
(***************************************************************************)
Raised(what) == [ok |-> FALSE, error |-> what]

TypeClass(type) ==
    CASE type = <<"I","n","v","i","t","a","t","i","o","n","a","l">> (* "Invitational" *) -> <<"i","n","v","i","t","a","t","i","o","n","a","l">> (* "invitational" *)
      [] type = <<"R","e","l","a","y"," ","M","e","e","t">> (* "Relay Meet" *) -> <<"r","e","l","a","y">> (* "relay" *)
      [] type = <<"C","o","n","f","e","r","e","n","c","e">> (* "Conference" *) -> <<"c","o","n","f","e","r","e","n","c","e">> (* "conference" *)
      [] type = <<"C","h","a","m","p","i","o","n","s","h","i","p">> (* "Championship" *) -> <<"c","h","a","m","p","i","o","n","s","h","i","p">> (* "championship" *)
      [] type = <<"M","e","e","t","i","n","g">> (* "Meeting" *) -> <<"m","e","e","t","i","n","g">> (* "meeting" *)
      [] type = <<"S","p","e","c","i","a","l"," ","E","v","e","n","t">> (* "Special Event" *) -> <<"s","p","e","c","i","a","l">> (* "special" *)
      [] OTHER -> <<>>

\* generate_event_card without a default for the time (a mutant)
GenerateEventCard_NoDefaultTime(event, index) ==
    IF "date" \notin DOMAIN event THEN Raised("KeyError: 'date'")
    ELSE LET date_obj == Strptime(event["date"], FormatCard)
             location == HtmlEscape(Get(event, "location", <<"T","B","D">> (* "TBD" *)))
         IN [ok |-> TRUE,
             card |-> [date |-> IF date_obj.ok THEN Strftime(date_obj)
                                ELSE HtmlEscape(event["date"]),
                       time |-> HtmlEscape(Get(event, "time", <<>>)),
                       name |-> HtmlEscape(Get(event, "name", <<"U","n","k","n","o","w","n"," ","E","v","e","n","t">> (* "Unknown Event" *))),
                       location |-> location,
                       home_indicator |-> (location = <<"E","T","H","S">> (* "ETHS" *) \/ Contains(location, <<"E","T","H","S">> (* "ETHS" *))),
                       type_class |-> TypeClass(Get(event, "type", <<"D","u","a","l"," ","M","e","e","t">> (* "Dual Meet" *))),
                       type |-> HtmlEscape(Get(event, "type", <<"D","u","a","l"," ","M","e","e","t">> (* "Dual Meet" *)))]]

\* generate_event_card: the values placed in the card's markup.  Without a
\* 'date' key the except clause itself raises KeyError.
GenerateEventCard(event, index) ==
    IF "date" \notin DOMAIN event THEN Raised("KeyError: 'date'")
    ELSE LET date_obj == Strptime(event["date"], FormatCard)
             location == HtmlEscape(Get(event, "location", <<"T","B","D">> (* "TBD" *)))
         IN [ok |-> TRUE,
             card |-> [date |-> IF date_obj.ok THEN Strftime(date_obj)
                                ELSE HtmlEscape(event["date"]),
                       time |-> HtmlEscape(Get(event, "time", <<"5",":","0","0"," ","P","M">> (* "5:00 PM" *))),
                       name |-> HtmlEscape(Get(event, "name", <<"U","n","k","n","o","w","n"," ","E","v","e","n","t">> (* "Unknown Event" *))),
                       location |-> location,
                       home_indicator |-> (location = <<"E","T","H","S">> (* "ETHS" *) \/ Contains(location, <<"E","T","H","S">> (* "ETHS" *))),
                       type_class |-> TypeClass(Get(event, "type", <<"D","u","a","l"," ","M","e","e","t">> (* "Dual Meet" *))),
                       type |-> HtmlEscape(Get(event, "type", <<"D","u","a","l"," ","M","e","e","t">> (* "Dual Meet" *)))]]

\* A file: missing, unreadable (open or read raises something other than
\* FileNotFoundError) or its content
Missing == [state |-> "missing"]

Unreadable == [state |-> "unreadable"]

FileOf(content) == [state |-> "file", content |-> content]

\* An HTML document as the renderer sees it: whether it holds the
\* <div id="competitions-list">, the cards inside that div, and the number n
\* of `totalCompetitions = n` in its first <script> (None: no such text)
EmptyHtml == [empty |-> TRUE, list |-> FALSE, cards |-> <<>>, total |-> None]

Page(list, cards, total) == [empty |-> FALSE, list |-> list, cards |-> cards, total |-> total]

\* The container after clear() and one append per event
NewCards(events) == [i \in 1..Len(events) |-> GenerateEventCard(events[i], i - 1).card]

\* generate_html_calendar, file being index.html
GenerateHtmlCalendar(file, events) ==
    IF file.state = "missing"
    THEN [ok |-> TRUE, html |-> EmptyHtml, printed |-> {"Error: index.html not found"}]
    ELSE IF file.state = "unreadable" THEN Raised("OSError")
    ELSE IF ~file.content.list
    THEN [ok |-> TRUE, html |-> file.content,
          printed |-> {"Error: Could not find competitions list in HTML"}]
    ELSE IF \E i \in 1..Len(events) : ~GenerateEventCard(events[i], i - 1).ok
    THEN Raised("KeyError: 'date'")
    ELSE [ok |-> TRUE,
          html |-> [file.content EXCEPT
                       !.cards = NewCards(events),
                       !.total = IF file.content.total.some
                                 THEN Some(Len(events)) ELSE None],
          printed |-> {}]

\* the fallback start of an event whose date and time do not parse
FallbackMonth == 8

FallbackDay == 1

FallbackHour == 17

\* the length of every event, in hours
EventHours == 2

\* The naive start generate_ics_calendar computes before central.localize:
\* the first of the two formats that parses, else August 1 of the current
\* year at 17:00; without a 'date' key (KeyError in the try block) today at
\* 17:00, with the seconds of the clock.
IcsStart(event_data, now) ==
    IF "date" \notin DOMAIN event_data
    THEN [now EXCEPT !.hour = FallbackHour, !.minute = 0]
    ELSE LET datetime_str == event_data["date"] \o <<" ">> (* " " *)
                                \o Get(event_data, "time", <<"5",":","0","0"," ","P","M">> (* "5:00 PM" *))
             long == Strptime(datetime_str, FormatLong)
             short == Strptime(datetime_str, FormatNoWeekday)
         IN IF long.ok THEN [f \in DOMAIN now |-> long[f]]
            ELSE IF short.ok THEN [f \in DOMAIN now |-> short[f]]
            ELSE [year |-> now.year, month |-> FallbackMonth, day |-> FallbackDay,
                  hour |-> FallbackHour, minute |-> 0, second |-> 0]

\* One VEVENT whose uid does not use the index (a mutant)
Component_SameUid(event_data, i, now) ==
    [dtstart |-> IcsStart(event_data, now),
     dtend |-> PlusHours(IcsStart(event_data, now), EventHours),
     dtstamp |-> now,
     uid |-> <<"e","t","h","s","-","g","i","r","l","s","-","s","w","i","m","-">> (* "eths-girls-swim-" *) \o NumStr(0) \o <<"@","p","a","u","l","s","m","i","t","h",".","g","i","t","h","u","b",".","i","o">> (* "@paulsmith.github.io" *),
     created |-> now,
     last_modified |-> now,
     sequence |-> 0,
     status |-> "CONFIRMED",
     transp |-> "TRANSPARENT",
     summary |-> <<"ETHS Girls Swimming - ", event_data["name"]>>,
     location |-> Get(event_data, "location", <<"T","B","D">> (* "TBD" *)),
     description |-> <<"ETHS Girls Swimming ", Get(event_data, "type", <<"D","u","a","l"," ","M","e","e","t">> (* "Dual Meet" *))>>]

\* One VEVENT; times are wall-clock times of America/Chicago
Component(event_data, i, now) ==
    [dtstart |-> IcsStart(event_data, now),
     dtend |-> PlusHours(IcsStart(event_data, now), EventHours),
     dtstamp |-> now,
     uid |-> <<"e","t","h","s","-","g","i","r","l","s","-","s","w","i","m","-">> (* "eths-girls-swim-" *) \o NumStr(i) \o <<"@","p","a","u","l","s","m","i","t","h",".","g","i","t","h","u","b",".","i","o">> (* "@paulsmith.github.io" *),
     created |-> now,
     last_modified |-> now,
     sequence |-> 0,
     status |-> "CONFIRMED",
     transp |-> "TRANSPARENT",
     summary |-> <<"ETHS Girls Swimming - ", event_data["name"]>>,
     location |-> Get(event_data, "location", <<"T","B","D">> (* "TBD" *)),
     description |-> <<"ETHS Girls Swimming ", Get(event_data, "type", <<"D","u","a","l"," ","M","e","e","t">> (* "Dual Meet" *))>>]

\* generate_ics_calendar at clock reading now: event_data['name'] raises
\* KeyError outside any try block
GenerateIcsCalendar(events, now) ==
    IF \E i \in 1..Len(events) : "name" \notin DOMAIN events[i]
    THEN Raised("KeyError: 'name'")
    ELSE [ok |-> TRUE,
          ics |-> [prodid |-> "-//paulsmith.github.io//ETHS Girls Swimming//EN",
                   version |-> "2.0",
                   calscale |-> "GREGORIAN",
                   method |-> "PUBLISH",
                   calname |-> "ETHS Girls Swimming",
                   components |-> [i \in 1..Len(events) |->
                                      Component(events[i], i - 1, now)]]]

(***************************************************************************)
(* The inputs: what the site serves, what the files hold, the clock        *)
(***************************************************************************)
\* the most rows a listing page has
MaxRows == 2

\* how often scrape_calendar is called on one scraper
MaxScrapes == 2

\* the most events in a list handed to a renderer directly
MaxEvents == 2

\* how often each renderer is called on one list
MaxCalls == 2

Row(n, date, name, location, form) ==
    [ncells |-> n, date |-> date, name |-> name, location |-> location, form |-> form]

\* rows whose date cell is in the site's short form
ShortFormRows ==
    { Row(4, <<"W","e","d",","," ","A","u","g"," ","1","3">> (* "Wed, Aug 13" *), <<"v","s"," ","N","i","l","e","s"," ","W","e","s","t">> (* "vs Niles West" *), <<"E","T","H","S">> (* "ETHS" *), "none"),
      Row(4, <<"S","a","t",","," ","S","e","p"," ","6">> (* "Sat, Sep 6" *), <<"W","i","l","d","k","i","t"," ","I","n","v","i","t","e">> (* "Wildkit Invite" *), <<"E","T","H","S"," ","P","o","o","l">> (* "ETHS Pool" *), "POST") }

ListingRows ==
    ShortFormRows \cup
    { Row(5, <<"F","r","i","d","a","y",","," ","A","u","g","u","s","t"," ","2","9",","," ","2","0","2","5">> (* "Friday, August 29, 2025" *), <<"a","t"," ","N","e","w"," ","T","r","i","e","r">> (* "at New Trier" *), <<"N","e","w"," ","T","r","i","e","r">> (* "New Trier" *), "none"),
      Row(4, <<"T","B","A">> (* "TBA" *), <<"P","a","r","e","n","t"," ","M","e","e","t","i","n","g">> (* "Parent Meeting" *), <<"E","T","H","S"," ","&"," ","Z","o","o","m">> (* "ETHS & Zoom" *), "none"),
      Row(3, <<"D","a","t","e">> (* "Date" *), <<"E","v","e","n","t">> (* "Event" *), <<"L","o","c","a","t","i","o","n">> (* "Location" *), "none"),
      Row(4, <<"T","h","u",","," ","O","c","t"," ","2">> (* "Thu, Oct 2" *), <<"X">> (* "X" *), <<"E","T","H","S">> (* "ETHS" *), "POST"),
      Row(4, <<>>, <<"v","s"," ","M","a","i","n","e"," ","S","o","u","t","h">> (* "vs Maine South" *), <<"E","T","H","S">> (* "ETHS" *), "none") }

RECURSIVE SeqsUpTo(_, _)
SeqsUpTo(S, n) ==
    IF n = 0 THEN {<<>>}
    ELSE SeqsUpTo(S, n - 1) \cup
         {Append(s, x) : s \in {q \in SeqsUpTo(S, n - 1) : Len(q) = n - 1}, x \in S}

ListingPages ==
    {[table |-> FALSE, rows |-> <<>>]} \cup
    {[table |-> TRUE, rows |-> rs] : rs \in SeqsUpTo(ListingRows, MaxRows)}

MainPages == {"text_link", "href_link", "no_link"}

\* soup.get_text() of the detail pages
DetailTexts ==
    { <<"M","e","e","t"," ","a","t"," ","E","T","H","S"," ","P","o","o","l",","," ","E","v","a","n","s","t","o","n","\n","S","t","a","r","t"," ","7",":","3","0"," ","P","M">> (* "Meet at ETHS Pool, Evanston\nStart 7:30 PM" *),
      <<"C","o","n","f","e","r","e","n","c","e"," ","r","e","l","a","y","\n","L","o","c","a","t","i","o","n",":"," ","E","T","H","S">> (* "Conference relay\nLocation: ETHS" *) }

OldCard ==
    [date |-> <<"F","r","i","d","a","y",","," ","A","u","g","u","s","t"," ","3","0",","," ","2","0","2","4">> (* "Friday, August 30, 2024" *), time |-> <<"5",":","0","0"," ","P","M">> (* "5:00 PM" *),
     name |-> <<"O","l","d"," ","M","e","e","t">> (* "Old Meet" *), location |-> <<"E","T","H","S">> (* "ETHS" *), home_indicator |-> TRUE,
     type_class |-> <<>>, type |-> <<"D","u","a","l"," ","M","e","e","t">> (* "Dual Meet" *)]

\* index.html before a renderer reads it
IndexFiles ==
    { Missing, Unreadable,
      FileOf(Page(TRUE, <<OldCard, OldCard, OldCard>>, Some(3))),
      FileOf(Page(TRUE, <<>>, None)),
      FileOf(Page(FALSE, <<>>, Some(3))) }

OldCalendar == FileOf([old |-> TRUE])

Files(index, ics) == [index_html |-> index, calendar_ics |-> ics]

\* index.html and calendar.ics before a run of main
InitialFiles ==
    { Files(Missing, Missing),
      Files(Unreadable, OldCalendar),
      Files(FileOf(Page(TRUE, <<OldCard, OldCard, OldCard>>, Some(3))), OldCalendar),
      Files(FileOf(Page(FALSE, <<>>, Some(3))), OldCalendar) }

Reading(y, mo, d, h, mi, s) ==
    [year |-> y, month |-> mo, day |-> d, hour |-> h, minute |-> mi, second |-> s]

\* what datetime.now() returns, in the order of time
ClockReadings ==
    << Reading(2025, 12, 31, 23, 59, 59),
       Reading(2026, 1, 1, 0, 0, 0) >>

Dict(name, date, time, location) ==
    [name |-> name, date |-> date, time |-> time, location |-> location,
     type |-> ExtractEventType(name), home |-> (location = <<"E","T","H","S">> (* "ETHS" *))]

Without(d, key) == [k \in DOMAIN d \ {key} |-> d[k]]

\* events a caller may hand to the renderers: complete ones, and ones with
\* a key missing or a value that does not parse
LooseEvents ==
    { Without(Dict(<<"v","s"," ","N","i","l","e","s"," ","W","e","s","t">> (* "vs Niles West" *), <<"W","e","d","n","e","s","d","a","y",","," ","A","u","g","u","s","t"," ","1","3",","," ","2","0","2","5">> (* "Wednesday, August 13, 2025" *), <<"5",":","0","0"," ","P","M">> (* "5:00 PM" *), <<"E","T","H","S">> (* "ETHS" *)), "time"),
      Dict(<<"v","s"," ","N","i","l","e","s"," ","W","e","s","t">> (* "vs Niles West" *), <<"W","e","d",","," ","A","u","g","u","s","t"," ","1","3",","," ","2","0","2","5">> (* "Wed, August 13, 2025" *), <<"5",":","0","0"," ","P","M">> (* "5:00 PM" *), <<"E","T","H","S">> (* "ETHS" *)),
      Dict(<<"W","i","l","d","k","i","t"," ","I","n","v","i","t","e">> (* "Wildkit Invite" *), <<"D","e","c","e","m","b","e","r"," ","3","1",","," ","2","0","2","5">> (* "December 31, 2025" *), <<"1","1",":","0","0"," ","P","M">> (* "11:00 PM" *), <<"E","T","H","S"," ","P","o","o","l">> (* "ETHS Pool" *)),
      Dict(<<"a","t"," ","N","e","w"," ","T","r","i","e","r">> (* "at New Trier" *), <<"A","u","g","u","s","t"," ","2","9",","," ","2","0","2","5">> (* "August 29, 2025" *), <<"7",":","3","0">> (* "7:30" *), <<"N","e","w"," ","T","r","i","e","r">> (* "New Trier" *)),
      Without(Dict(<<"S","t","a","t","e"," ","F","i","n","a","l","s">> (* "State Finals" *), <<"F","e","b","r","u","a","r","y"," ","3","0",","," ","2","0","2","6">> (* "February 30, 2026" *), <<"5",":","0","0"," ","P","M">> (* "5:00 PM" *), <<"T","B","D">> (* "TBD" *)), "time"),
      Without(Dict(<<"P","a","r","e","n","t"," ","M","e","e","t","i","n","g">> (* "Parent Meeting" *), <<>>, <<"6",":","0","0"," ","P","M">> (* "6:00 PM" *), <<"E","T","H","S">> (* "ETHS" *)), "date"),
      Without(Dict(<<>>, <<"A","u","g","u","s","t"," ","2","9",","," ","2","0","2","5">> (* "August 29, 2025" *), <<"5",":","0","0"," ","P","M">> (* "5:00 PM" *), <<"E","T","H","S">> (* "ETHS" *)), "name") }

(***************************************************************************)
(* State                                                                   *)
(***************************************************************************)
VARIABLES
    pc,             \* where main() is ("render": the renderers are called directly)
    dry_run,        \* args.dry_run
    index_html,     \* the file index.html
    calendar_ics,   \* the file calendar.ics
    orig,           \* both files as they were at the start
    opened,         \* the files opened for writing
    net,            \* the requests sent, with their outcome, and the sleeps
    event_rows,     \* the <tr> rows of the listing page (tbody.find_all('tr'))
    events_data,    \* the parsed rows (scrape_calendar's events_data)
    i,              \* how many of them the detail loop has processed
    self_events,    \* scraper.events
    events,         \* main's events (a renderer's argument)
    html_calls,     \* what each call of generate_html_calendar returned
    ics_calls,      \* what each call of generate_ics_calendar returned
    clock,          \* the index of the last clock reading taken
    printed,        \* the error and status lines printed
    exit_status     \* main's return value, None while it runs

vars == <<pc, dry_run, index_html, calendar_ics, orig, opened, net, event_rows, events_data, i,
          self_events, events, html_calls, ics_calls, clock, printed, exit_status>>

scrape_vars == <<net, event_rows, events_data, i, self_events>>

file_vars == <<index_html, calendar_ics, opened>>

Init ==
    /\ pc = "start"
    /\ dry_run \in BOOLEAN
    /\ orig \in InitialFiles
    /\ index_html = orig.index_html
    /\ calendar_ics = orig.calendar_ics
    /\ opened = {}
    /\ net = <<>>
    /\ event_rows = <<>>
    /\ events_data = <<>>
    /\ i = 0
    /\ self_events = <<>>
    /\ events = <<>>
    /\ html_calls = <<>>
    /\ ics_calls = <<>>
    /\ clock = 1
    /\ printed = {}
    /\ exit_status = None

(***************************************************************************)
(* scrape_calendar                                                         *)
(***************************************************************************)
\* An entry of net: a request, whether it succeeded and what came back
Request(to, ok, got) == [to |-> to, ok |-> ok, got |-> got]

\* time.sleep(1)
Sleep == [to |-> "sleep", ok |-> TRUE, got |-> "1 second"]

\* the except clause of scrape_calendar: print the error, return []
ScrapeFails ==
    /\ printed' = printed \cup {"Error scraping calendar"}
    /\ events' = <<>>
    /\ pc' = "scraped"

\* Step 1 and the search for the competitions link
VisitMainPage ==
    /\ pc = "start"
    /\ \E resp \in {"error"} \cup MainPages :
          /\ net' = Append(net, Request("main", resp # "error", resp))
          /\ IF resp = "error" \/ ~FindCompetitionsLink(resp).some
             THEN ScrapeFails
             ELSE pc' = "listing" /\ UNCHANGED <<printed, events>>
    /\ UNCHANGED <<dry_run, file_vars, orig, event_rows, events_data, i, self_events,
                   html_calls, ics_calls, clock, exit_status>>

\* Steps 2 and 3: the listing page and its rows
FetchListing ==
    /\ pc = "listing"
    /\ \E resp \in {HttpError} \cup {HttpOk(page) : page \in ListingPages} :
          /\ net' = Append(net, Request("listing", resp.ok, "page"))
          /\ IF ~resp.ok
             THEN ScrapeFails /\ UNCHANGED <<event_rows, events_data>>
             ELSE /\ event_rows' = (IF resp.body.table THEN resp.body.rows ELSE <<>>)
                  /\ events_data' = ParseCompetitionsPage(resp.body)
                  /\ pc' = "details"
                  /\ UNCHANGED <<printed, events>>
    /\ UNCHANGED <<dry_run, file_vars, orig, i, self_events,
                   html_calls, ics_calls, clock, exit_status>>

\* Step 4, one pass of the loop: the details of one event, then the sleep
ProcessEvent ==
    /\ pc = "details"
    /\ i < Len(events_data)
    /\ LET event_data == events_data[i + 1]
       IN \E resp \in IF SendsRequest(event_data)
                      THEN {HttpError} \cup {HttpOk(text) : text \in DetailTexts}
                      ELSE {HttpError} :
             /\ self_events' = Append(self_events, GetEventDetails(event_data, resp))
             /\ net' = net \o (IF SendsRequest(event_data)
                               THEN <<Request("detail", resp.ok, "page")>> ELSE <<>>)
                           \o <<Sleep>>
    /\ i' = i + 1
    /\ UNCHANGED <<pc, dry_run, file_vars, orig, event_rows, events_data, events,
                   html_calls, ics_calls, clock, printed, exit_status>>

\* return self.events
ScrapeReturns ==
    /\ pc = "details"
    /\ i = Len(events_data)
    /\ events' = self_events
    /\ pc' = "scraped"
    /\ UNCHANGED <<dry_run, file_vars, orig, scrape_vars,
                   html_calls, ics_calls, clock, printed, exit_status>>

(***************************************************************************)
(* main                                                                    *)
(***************************************************************************)
\* main returning 0 from every exit, the except clause included (a mutant)
Exits_AlwaysZero(status, line) ==
    /\ exit_status' = Some(0)
    /\ printed' = printed \cup line
    /\ pc' = "done"

\* main returns: its status and the line it prints before
Exits(status, line) ==
    /\ exit_status' = Some(status)
    /\ printed' = printed \cup line
    /\ pc' = "done"

\* main without its `if not events` exit (a mutant)
NoEvents_Dropped(evs) == FALSE

\* `if not events`
NoEvents(evs) == evs = <<>>

CheckEvents ==
    /\ pc = "scraped"
    /\ IF NoEvents(events)
       THEN Exits(1, {"No events found. Exiting."})
       ELSE pc' = "generate_html" /\ UNCHANGED <<printed, exit_status>>
    /\ UNCHANGED <<dry_run, file_vars, orig, scrape_vars, events,
                   html_calls, ics_calls, clock>>

GenerateHtml ==
    /\ pc = "generate_html"
    /\ LET res == GenerateHtmlCalendar(index_html, events)
       IN /\ html_calls' = Append(html_calls, res)
          /\ IF res.ok
             THEN /\ pc' = "generate_ics"
                  /\ printed' = printed \cup res.printed
                  /\ UNCHANGED exit_status
             ELSE Exits(1, {"Error generating calendar files"})
    /\ UNCHANGED <<dry_run, file_vars, orig, scrape_vars, events, ics_calls, clock>>

\* main ignoring --dry-run (a mutant)
SkipsWrites_Never(dry) == FALSE

\* `if args.dry_run`: whether main skips the writes
SkipsWrites(dry) == dry

GenerateIcs ==
    /\ pc = "generate_ics"
    /\ \E k \in clock..Len(ClockReadings) :
          LET res == GenerateIcsCalendar(events, ClockReadings[k])
          IN /\ clock' = k
             /\ ics_calls' = Append(ics_calls, res)
             /\ IF ~res.ok THEN Exits(1, {"Error generating calendar files"})
                ELSE IF SkipsWrites(dry_run) THEN Exits(0, {"DRY RUN"})
                ELSE pc' = "write_html" /\ UNCHANGED <<printed, exit_status>>
    /\ UNCHANGED <<dry_run, file_vars, orig, scrape_vars, events, html_calls>>

\* open(html_path, 'w') and f.write(html_content): the open may fail, and
\* the write may fail after the open has truncated the file
WriteHtml ==
    /\ pc = "write_html"
    /\ \E outcome \in {"written", "open fails", "write fails"} :
          CASE outcome = "written" ->
                 /\ index_html' = FileOf(html_calls[Len(html_calls)].html)
                 /\ opened' = opened \cup {"index.html"}
                 /\ pc' = "write_ics"
                 /\ UNCHANGED <<printed, exit_status>>
            [] outcome = "open fails" ->
                 /\ Exits(1, {"Error generating calendar files"})
                 /\ UNCHANGED <<index_html, opened>>
            [] outcome = "write fails" ->
                 /\ index_html' = FileOf(EmptyHtml)
                 /\ opened' = opened \cup {"index.html"}
                 /\ Exits(1, {"Error generating calendar files"})
    /\ UNCHANGED <<dry_run, calendar_ics, orig, scrape_vars, events,
                   html_calls, ics_calls, clock>>

WriteIcs ==
    /\ pc = "write_ics"
    /\ \E outcome \in {"written", "open fails", "write fails"} :
          CASE outcome = "written" ->
                 /\ calendar_ics' = FileOf(ics_calls[Len(ics_calls)].ics)
                 /\ opened' = opened \cup {"calendar.ics"}
                 /\ Exits(0, {"Calendar files updated successfully!"})
            [] outcome = "open fails" ->
                 /\ Exits(1, {"Error generating calendar files"})
                 /\ UNCHANGED <<calendar_ics, opened>>
            [] outcome = "write fails" ->
                 /\ calendar_ics' = FileOf([truncated |-> TRUE])
                 /\ opened' = opened \cup {"calendar.ics"}
                 /\ Exits(1, {"Error generating calendar files"})
    /\ UNCHANGED <<dry_run, index_html, orig, scrape_vars, events,
                   html_calls, ics_calls, clock>>

Next ==
    \/ VisitMainPage
    \/ FetchListing
    \/ ProcessEvent
    \/ ScrapeReturns
    \/ CheckEvents
    \/ GenerateHtml
    \/ GenerateIcs
    \/ WriteHtml
    \/ WriteIcs

\* one run of main()
Spec == Init /\ [][Next]_vars

(***************************************************************************)
(* The renderers called directly on a list of events, as main calls them:  *)
(* generate_html_calendar, then generate_ics_calendar, and the HTML may    *)
(* be saved to index.html before the next call reads it.                   *)
(***************************************************************************)
RenderInit ==
    /\ pc = "render"
    /\ dry_run = FALSE
    /\ index_html \in IndexFiles
    /\ calendar_ics = Missing
    /\ orig = [index_html |-> index_html, calendar_ics |-> calendar_ics]
    /\ opened = {}
    /\ net = <<>>
    /\ event_rows = <<>>
    /\ events_data = <<>>
    /\ i = 0
    /\ self_events = <<>>
    /\ events \in SeqsUpTo(LooseEvents, MaxEvents)
    /\ html_calls = <<>>
    /\ ics_calls = <<>>
    /\ clock = 1
    /\ printed = {}
    /\ exit_status = None

CallGenerateHtml ==
    /\ pc = "render"
    /\ Len(html_calls) = Len(ics_calls)
    /\ Len(html_calls) < MaxCalls
    /\ html_calls' = Append(html_calls, GenerateHtmlCalendar(index_html, events))
    /\ UNCHANGED <<pc, dry_run, file_vars, orig, scrape_vars, events, ics_calls,
                   clock, printed, exit_status>>

CallGenerateIcs ==
    /\ pc = "render"
    /\ Len(ics_calls) < Len(html_calls)
    /\ \E k \in clock..Len(ClockReadings) :
          /\ clock' = k
          /\ ics_calls' = Append(ics_calls, GenerateIcsCalendar(events, ClockReadings[k]))
    /\ UNCHANGED <<pc, dry_run, file_vars, orig, scrape_vars, events, html_calls,
                   printed, exit_status>>

SaveHtml ==
    /\ pc = "render"
    /\ html_calls # <<>>
    /\ Len(html_calls) = Len(ics_calls)
    /\ html_calls[Len(html_calls)].ok
    /\ "index.html" \notin opened
    /\ index_html' = FileOf(html_calls[Len(html_calls)].html)
    /\ opened' = opened \cup {"index.html"}
    /\ UNCHANGED <<pc, dry_run, calendar_ics, orig, scrape_vars, events, html_calls,
                   ics_calls, clock, printed, exit_status>>

RenderNext ==
    \/ CallGenerateHtml
    \/ CallGenerateIcs
    \/ SaveHtml

RenderSpec == RenderInit /\ [][RenderNext]_vars

(***************************************************************************)
(* scrape_calendar called more than once on one ETHSCalendarScraper: the   *)
(* locals start afresh, self.events is the instance's.                     *)
(***************************************************************************)
ScraperInit ==
    /\ Init
    /\ dry_run = FALSE
    /\ orig = Files(Missing, Missing)

\* the calls of scrape_calendar so far
Scrapes == Len(SelectSeq(net, LAMBDA r : r.to = "main"))

CallScrapeAgain ==
    /\ pc = "scraped"
    /\ Scrapes < MaxScrapes
    /\ pc' = "start"
    /\ event_rows' = <<>>
    /\ events_data' = <<>>
    /\ i' = 0
    /\ UNCHANGED <<dry_run, file_vars, orig, net, self_events, events,
                   html_calls, ics_calls, clock, printed, exit_status>>

ScraperNext ==
    \/ VisitMainPage
    \/ FetchListing
    \/ ProcessEvent
    \/ ScrapeReturns
    \/ CallScrapeAgain

ScraperSpec == ScraperInit /\ [][ScraperNext]_vars


(***************************************************************************)
(* Properties                                                              *)
(***************************************************************************)
\* The date cell is in the site's short form: abbreviated weekday, comma,
\* abbreviated month, day
IsShortForm(cell) ==
    LET r == Runs(cell)
    IN /\ Len(r) = 3
       /\ r[1].s = 1 /\ r[3].e = Len(cell)
       /\ \E d \in 1..7 : RunText(cell, r[1]) = SubSeq(WeekdayNames[d], 1, 3)
       /\ \E m \in 1..12 : RunText(cell, r[2]) = SubSeq(MonthNames[m], 1, 3)
       /\ IsDay(RunText(cell, r[3]))
       /\ Gap(cell, r, 1) = <<","," ">> (* ", " *)
       /\ Gap(cell, r, 2) = <<" ">> (* " " *)

ShortFormMonth(cell) ==
    CHOOSE m \in 1..12 : RunText(cell, Runs(cell)[2]) = SubSeq(MonthNames[m], 1, 3)

ShortFormDay(cell) == NumVal(RunText(cell, Runs(cell)[3]))

\* the time of day a time string such as "5:00 PM" names
TimeOfDay(time) == Strptime(<<"J","a","n","u","a","r","y"," ","1",","," ","2","0","2","5"," ">> (* "January 1, 2025 " *) \o time, FormatNoWeekday)

HasList(file) == file.state = "file" /\ file.content.list

NavigationFailed ==
    \E k \in 1..Len(net) :
       /\ net[k].to \in {"main", "listing"}
       /\ ~net[k].ok \/ net[k].got = "no_link"

\* C1: for every listing row whose date cell is in the short form, the
\* calendar component of its event starts on that month and day of 2025 at
\* the event's time of day, not on the fallback date.
C1_ShortDateStartsOnItsDay ==
    \A k \in 1..Len(ics_calls) :
       ics_calls[k].ok =>
          \A j \in 1..Len(events) :
             IsShortForm(events[j].raw_data.row_html.date) =>
                LET start == ics_calls[k].ics.components[j].dtstart
                    cell == events[j].raw_data.row_html.date
                    tod == TimeOfDay(events[j].time)
                IN /\ start.year = 2025
                   /\ start.month = ShortFormMonth(cell)
                   /\ start.day = ShortFormDay(cell)
                   /\ tod.ok => (start.hour = tod.hour /\ start.minute = tod.minute)

\* C2: every event of the scraper whose location contains "ETHS" has its
\* home flag set, and its card shows the home indicator.
C2_HomeMarkerSetsHomeFlag ==
    /\ \A j \in 1..Len(self_events) :
          Contains(self_events[j].location, <<"E","T","H","S">> (* "ETHS" *)) => self_events[j].home
    /\ \A k \in 1..Len(html_calls) :
          (html_calls[k].ok /\ HasList(orig.index_html)) =>
             \A j \in 1..Len(events) :
                Contains(events[j].location, <<"E","T","H","S">> (* "ETHS" *))
                   => html_calls[k].html.cards[j].home_indicator

\* C3: when index.html has no competitions-list container, the run that
\* reaches the HTML renderer reports the error, does not end with status 0
\* and leaves index.html untouched.
C3_MissingAnchorAborts ==
    (/\ pc = "done"
     /\ html_calls # <<>>
     /\ orig.index_html.state = "file"
     /\ ~orig.index_html.content.list)
       => /\ "Error: Could not find competitions list in HTML" \in printed
          /\ exit_status # Some(0)
          /\ "index.html" \notin opened
          /\ index_html = orig.index_html

\* C4: when the main page or the listing page cannot be fetched, or the
\* main page has no competitions link, neither file is written and the run
\* ends with status 1.
C4_NavigationFailureWritesNothing ==
    NavigationFailed =>
       /\ pc \in {"scraped", "done"}
       /\ opened = {}
       /\ index_html = orig.index_html
       /\ calendar_ics = orig.calendar_ics
       /\ pc = "done" => exit_status = Some(1)

C4_Witness ==
    /\ NavigationFailed
    /\ pc = "done"
    /\ exit_status = Some(1)
    /\ orig.index_html.state = "file"

\* C5: for a list of n events and an existing template, the HTML that
\* generate_html_calendar returns holds exactly n cards in the competitions-list container, whatever the
\* template held before, its totalCompetitions is n, and the calendar
\* holds n components.
C5_OneCardAndOneComponentPerEvent ==
    /\ \A k \in 1..Len(html_calls) :
          (html_calls[k].ok /\ orig.index_html.state = "file") =>
             /\ html_calls[k].html.list
             /\ Len(html_calls[k].html.cards) = Len(events)
             /\ html_calls[k].html.total.some
                   => html_calls[k].html.total.v = Len(events)
    /\ \A k \in 1..Len(ics_calls) :
          ics_calls[k].ok => Len(ics_calls[k].ics.components) = Len(events)

ScenarioRow == Row(4, <<"W","e","d",","," ","A","u","g"," ","1","3">> (* "Wed, Aug 13" *), <<"v","s"," ","N","i","l","e","s"," ","W","e","s","t">> (* "vs Niles West" *), <<"E","T","H","S">> (* "ETHS" *), "none")

\* C6: the row {name: 'vs Niles West', date: 'Wed, Aug 13', location:
\* 'ETHS'} with no time supplied becomes an event with time '5:00 PM',
\* category 'Dual Meet' and home = true.
C6_ScenarioNilesWest ==
    \A j \in 1..Len(self_events) :
       self_events[j].raw_data.row_html = ScenarioRow =>
          /\ self_events[j].time = <<"5",":","0","0"," ","P","M">> (* "5:00 PM" *)
          /\ self_events[j].type = <<"D","u","a","l"," ","M","e","e","t">> (* "Dual Meet" *)
          /\ self_events[j].home = TRUE

C6_Witness ==
    \E j \in 1..Len(events) :
       /\ events[j].raw_data.row_html = ScenarioRow
       /\ events[j].name = <<"v","s"," ","N","i","l","e","s"," ","W","e","s","t">> (* "vs Niles West" *)

\* C7: generate_ics_calendar returns calendar text for every list of
\* events, whatever fields are missing, empty or malformed; it never raises.
C7_IcsAlwaysSucceeds ==
    \A k \in 1..Len(ics_calls) : ics_calls[k].ok

\* the date or the time of the event cannot be parsed
Unparsed(e) ==
    \/ "date" \notin DOMAIN e
    \/ LET s == e["date"] \o <<" ">> (* " " *) \o Get(e, "time", <<"5",":","0","0"," ","P","M">> (* "5:00 PM" *))
       IN ~Strptime(s, FormatLong).ok /\ ~Strptime(s, FormatNoWeekday).ok

\* C8: an event whose date or time cannot be parsed still gets its
\* component, which starts on August 1 at 17:00 and lasts two hours; it is
\* neither dropped nor does it abort the call.
C8_UnparsedStartsOnFixedFallback ==
    \A k \in 1..Len(ics_calls) :
       /\ (\A j \in 1..Len(events) : "name" \in DOMAIN events[j]) => ics_calls[k].ok
       /\ ics_calls[k].ok =>
             /\ Len(ics_calls[k].ics.components) = Len(events)
             /\ \A j \in 1..Len(events) :
                   Unparsed(events[j]) =>
                      LET c == ics_calls[k].ics.components[j]
                      IN /\ c.dtstart = [year |-> c.dtstamp.year, month |-> 8, day |-> 1,
                                         hour |-> 17, minute |-> 0, second |-> 0]
                         /\ c.dtend = [c.dtstart EXCEPT !.hour = 19]

\* C9: a dry run creates or modifies neither file, and ends with status 0
\* only after both renderers ran; a run that is not a dry run and ends with
\* status 0 has written both files.
C9_DryRunWritesNothing ==
    /\ dry_run =>
          /\ opened = {}
          /\ index_html = orig.index_html
          /\ calendar_ics = orig.calendar_ics
          /\ (pc = "done" /\ events # <<>>) => Len(html_calls) = 1
          /\ (pc = "done" /\ exit_status = Some(0)) =>
                /\ Len(html_calls) = 1 /\ html_calls[1].ok
                /\ Len(ics_calls) = 1 /\ ics_calls[1].ok
    /\ (~dry_run /\ pc = "done" /\ exit_status = Some(0)) =>
          /\ opened = {"index.html", "calendar.ics"}
          /\ index_html = FileOf(html_calls[1].html)
          /\ calendar_ics = FileOf(ics_calls[1].ics)

C9_Witness ==
    /\ dry_run
    /\ pc = "done"
    /\ exit_status = Some(0)
    /\ orig.calendar_ics = Missing
    /\ events # <<>>

\* a calendar without its generation timestamps
StripStamps(ics) ==
    [ics EXCEPT !.components =
        [j \in DOMAIN @ |->
            [f \in DOMAIN @[j] \ {"dtstamp", "created", "last_modified"} |-> @[j][f]]]]

\* C10: rendering the same list of events twice gives the same HTML, also
\* when the second render reads the first one's output, and the same
\* calendar apart from DTSTAMP, CREATED and LAST-MODIFIED.
C10_RenderingIsIdempotent ==
    /\ \A a, b \in 1..Len(html_calls) :
          (html_calls[a].ok /\ html_calls[b].ok) => html_calls[a].html = html_calls[b].html
    /\ \A a, b \in 1..Len(ics_calls) :
          (ics_calls[a].ok /\ ics_calls[b].ok)
             => StripStamps(ics_calls[a].ics) = StripStamps(ics_calls[b].ics)

\* the last call of scrape_calendar ended in its except clause
ScrapeFailed ==
    /\ net # <<>>
    /\ LET last == net[Len(net)]
       IN /\ last.to \in {"main", "listing"}
          /\ ~last.ok \/ last.got = "no_link"

\* C11: a run whose listing has no events still produces both files: a
\* calendar with its header and footer and no component, and an HTML
\* document with no card in the competitions-list container.
C11_EmptyListStillProducesFiles ==
    (/\ pc = "done"
     /\ ~ScrapeFailed
     /\ events = <<>>
     /\ ~dry_run
     /\ HasList(orig.index_html))
       => /\ html_calls # <<>> /\ ics_calls # <<>>
          /\ calendar_ics.state = "file"
          /\ calendar_ics.content = ics_calls[1].ics
          /\ calendar_ics.content.components = <<>>
          /\ HasList(index_html)
          /\ index_html.content.cards = <<>>

\* the listing page was fetched by the last call of scrape_calendar
ListingParsed == pc \notin {"start", "listing"} /\ ~ScrapeFailed

\* a row has its four cells, a date and a name of two characters or more
RowParses(row) == row.ncells >= 4 /\ row.date # <<>> /\ Len(row.name) >= 2

\* C12: the rows of the listing that fail to parse contribute nothing, and
\* every other row is still parsed: the parsed rows are exactly the rows
\* with four cells, a date and a name, in the order of the page.
C12_BadRowsAreSkipped ==
    ListingParsed =>
       LET kept == SelectSeq(event_rows, RowParses)
       IN /\ Len(events_data) = Len(kept)
          /\ \A j \in 1..Len(kept) :
                /\ events_data[j].row_html = kept[j]
                /\ events_data[j].name = kept[j].name
                /\ events_data[j].location = kept[j].location

C12_Witness ==
    /\ pc = "scraped"
    /\ Len(event_rows) = 2
    /\ ~RowParses(event_rows[1])
    /\ RowParses(event_rows[2])
    /\ Len(events) = 1
    /\ events[1].raw_data.row_html = event_rows[2]

\* a row of the table with the four cells of an event
IsEventRow(row) == row.ncells >= 4

\* C13: no event row is dropped: when scrape_calendar returns without a
\* navigation failure, every row of the listing with its four cells has its
\* event in the list, with defaults where the row, its date or time, or its
\* detail page could not be used.
C13_NoEventRowIsDropped ==
    (pc = "scraped" /\ ~ScrapeFailed) =>
       LET rows == SelectSeq(event_rows, IsEventRow)
       IN /\ Len(events) = Len(rows)
          /\ \A j \in 1..Len(rows) :
                /\ events[j].raw_data.row_html = rows[j]
                /\ events[j].time # <<>>
                /\ events[j].type # <<>>

IsRequest(entry) == entry.to \in {"main", "listing", "detail"}

\* C14: between any two consecutive requests of a run (main page, listing
\* page, each detail request) the one-second delay elapses.
C14_DelayBetweenRequests ==
    \A k \in 1..(Len(net) - 1) :
       (IsRequest(net[k]) /\ IsRequest(net[k + 1])) => FALSE

\* C15: within one generated calendar every component carries a UID, the
\* UIDs are pairwise distinct, and the UID of the component at list
\* position i (from 0) is 'eths-girls-swim-<i>@paulsmith.github.io'.
C15_UidsAreDistinctAndIndexed ==
    \A k \in 1..Len(ics_calls) :
       ics_calls[k].ok =>
          LET cs == ics_calls[k].ics.components
          IN /\ \A a \in 1..Len(cs) :
                   cs[a].uid = <<"e","t","h","s","-","g","i","r","l","s","-","s","w","i","m","-">> (* "eths-girls-swim-" *) \o NumStr(a - 1)
                                  \o <<"@","p","a","u","l","s","m","i","t","h",".","g","i","t","h","u","b",".","i","o">> (* "@paulsmith.github.io" *)
             /\ \A a, b \in 1..Len(cs) : cs[a].uid = cs[b].uid => a = b

C15_Witness ==
    /\ Len(events) = 2
    /\ events[1] = events[2]
    /\ ics_calls # <<>>
    /\ ics_calls[1].ok
    /\ Len(ics_calls[1].ics.components) = 2
    /\ ics_calls[1].ics.components[1].uid # ics_calls[1].ics.components[2].uid

\* C16: for every event without a time, the card shows '5:00 PM' and the
\* calendar component starts at 17:00.
C16_DefaultTimeInBothRenderers ==
    \A j \in 1..Len(events) :
       "time" \notin DOMAIN events[j] =>
          /\ \A k \in 1..Len(html_calls) :
                (html_calls[k].ok /\ html_calls[k].html.list) =>
                   html_calls[k].html.cards[j].time = <<"5",":","0","0"," ","P","M">> (* "5:00 PM" *)
          /\ \A k \in 1..Len(ics_calls) :
                ics_calls[k].ok =>
                   /\ ics_calls[k].ics.components[j].dtstart.hour = 17
                   /\ ics_calls[k].ics.components[j].dtstart.minute = 0

C16_Witness ==
    /\ Len(events) = 1
    /\ "time" \notin DOMAIN events[1]
    /\ html_calls # <<>> /\ html_calls[1].ok /\ html_calls[1].html.list
    /\ html_calls[1].html.cards[1].time = <<"5",":","0","0"," ","P","M">> (* "5:00 PM" *)
    /\ ics_calls # <<>> /\ ics_calls[1].ok
    /\ ics_calls[1].ics.components[1].dtstart =
          [year |-> 2025, month |-> 8, day |-> 13, hour |-> 17, minute |-> 0, second |-> 0]

Categories ==
    { <<"I","n","v","i","t","a","t","i","o","n","a","l">> (* "Invitational" *), <<"R","e","l","a","y"," ","M","e","e","t">> (* "Relay Meet" *), <<"C","o","n","f","e","r","e","n","c","e">> (* "Conference" *), <<"C","h","a","m","p","i","o","n","s","h","i","p">> (* "Championship" *),
      <<"M","e","e","t","i","n","g">> (* "Meeting" *), <<"D","u","a","l"," ","M","e","e","t">> (* "Dual Meet" *) }

\* the keywords in the order they are tried, each with its category
Keywords ==
    << [word |-> <<"i","n","v","i","t","a","t","i","o","n","a","l">> (* "invitational" *), category |-> <<"I","n","v","i","t","a","t","i","o","n","a","l">> (* "Invitational" *)],
       [word |-> <<"i","n","v","i","t","e">> (* "invite" *), category |-> <<"I","n","v","i","t","a","t","i","o","n","a","l">> (* "Invitational" *)],
       [word |-> <<"r","e","l","a","y">> (* "relay" *), category |-> <<"R","e","l","a","y"," ","M","e","e","t">> (* "Relay Meet" *)],
       [word |-> <<"c","o","n","f","e","r","e","n","c","e">> (* "conference" *), category |-> <<"C","o","n","f","e","r","e","n","c","e">> (* "Conference" *)],
       [word |-> <<"s","e","c","t","i","o","n","a","l">> (* "sectional" *), category |-> <<"C","h","a","m","p","i","o","n","s","h","i","p">> (* "Championship" *)],
       [word |-> <<"s","t","a","t","e">> (* "state" *), category |-> <<"C","h","a","m","p","i","o","n","s","h","i","p">> (* "Championship" *)],
       [word |-> <<"m","e","e","t","i","n","g">> (* "meeting" *), category |-> <<"M","e","e","t","i","n","g">> (* "Meeting" *)] >>

\* the category of the first keyword the text holds, in any case of letters
FirstKeywordCategory(text) ==
    LET hits == {k \in 1..Len(Keywords) : Contains(Lower(text), Keywords[k].word)}
    IN IF hits = {} THEN <<"D","u","a","l"," ","M","e","e","t">> (* "Dual Meet" *) ELSE Keywords[Min(hits)].category

\* C17: every event of the scraper has a category of the fixed set, the one
\* of the first matching keyword: in the row's name for an event built from
\* the row alone, in the text of a detail page for an event updated from one.
C17_CategoryByFirstKeyword ==
    \A j \in 1..Len(self_events) :
       LET e == self_events[j]
       IN /\ e.type \in Categories
          /\ \/ e.type = FirstKeywordCategory(e.name)
             \/ /\ e.raw_data.info_element # "none"
                /\ \E text \in DetailTexts : e.type = FirstKeywordCategory(text)
          /\ e.raw_data.info_element = "none" => e.type = FirstKeywordCategory(e.name)

C17_Witness ==
    /\ pc = "scraped"
    /\ Len(events) = 2
    /\ events[1].name = <<"W","i","l","d","k","i","t"," ","I","n","v","i","t","e">> (* "Wildkit Invite" *)
    /\ events[1].type = <<"R","e","l","a","y"," ","M","e","e","t">> (* "Relay Meet" *)
    /\ events[2].name = <<"P","a","r","e","n","t"," ","M","e","e","t","i","n","g">> (* "Parent Meeting" *)
    /\ events[2].type = <<"M","e","e","t","i","n","g">> (* "Meeting" *)

\* the requests sent so far, without the sleeps
Requests == SelectSeq(net, IsRequest)

\* a request whose outcome makes scrape_calendar give up
IsFatal(r) ==
    /\ r.to \in {"main", "listing"}
    /\ ~r.ok \/ r.got = "no_link"

HasForm(event_data) == event_data.info_element # "none"

\* C18: the requests of a run follow a fixed order: the main page first;
\* the listing page only after the main page was fetched and held a
\* competitions link; detail requests only after the listing page was
\* parsed, one for each parsed row with a form among the rows processed so
\* far; and nothing after a fatal failure.
C18_RequestsInFixedOrder ==
    LET R == Requests
    IN /\ \A k \in 1..Len(R) :
             /\ R[k].to = "main" <=> k = 1
             /\ R[k].to = "listing" =>
                   k = 2 /\ R[1].ok /\ R[1].got \in {"text_link", "href_link"}
             /\ R[k].to = "detail" =>
                   k >= 3 /\ R[2].to = "listing" /\ R[2].ok
             /\ IsFatal(R[k]) => k = Len(R)
       /\ Len(SelectSeq(R, LAMBDA r : r.to = "detail"))
             = Len(SelectSeq(SubSeq(events_data, 1, i), HasForm))
       /\ i <= Len(events_data)

C18_Witness ==
    /\ pc = "scraped"
    /\ Len(Requests) = 4
    /\ Requests[3].to = "detail" /\ ~Requests[3].ok
    /\ Requests[4].to = "detail" /\ Requests[4].ok
    /\ Len(events) = 2

GenerationRaised ==
    \/ \E k \in 1..Len(html_calls) : ~html_calls[k].ok
    \/ \E k \in 1..Len(ics_calls) : ~ics_calls[k].ok

BothWritten ==
    /\ opened = {"index.html", "calendar.ics"}
    /\ index_html = FileOf(html_calls[1].html)
    /\ calendar_ics = FileOf(ics_calls[1].ics)

\* C19: both contents are generated before either file is opened for
\* writing; if a generator raises, neither file is modified and the run
\* ends with status 1; and a run ends with status 0 only if it was a dry run
\* or both files were written.
C19_GenerateBeforeWrite ==
    /\ opened # {} =>
          /\ Len(html_calls) = 1 /\ html_calls[1].ok
          /\ Len(ics_calls) = 1 /\ ics_calls[1].ok
    /\ GenerationRaised =>
          /\ opened = {}
          /\ index_html = orig.index_html
          /\ calendar_ics = orig.calendar_ics
          /\ pc = "done"
          /\ exit_status = Some(1)
    /\ exit_status = Some(0) => (dry_run \/ BothWritten)

C19_Witness ==
    /\ pc = "done"
    /\ ~dry_run
    /\ GenerationRaised
    /\ events # <<>>
    /\ orig.calendar_ics = OldCalendar
    /\ exit_status = Some(1)

\* C20: a call of scrape_calendar that does not fail returns exactly one
\* event per parsed row of its listing, in row order, and nothing of an
\* earlier call on the same scraper; a call that fails returns the empty
\* list.
C20_EachCallReturnsItsOwnEvents ==
    pc = "scraped" =>
       IF ScrapeFailed THEN events = <<>>
       ELSE /\ Len(events) = Len(events_data)
            /\ \A j \in 1..Len(events_data) : events[j].raw_data = events_data[j]

====
